---- MODULE Spec2Model ----
(***************************************************************************)
(* Model of OlympicFilter::run (whitebox_tools, image_analysis/            *)
(* olympic_filter.rs): filter size normalisation, the row-block scheduler  *)
(* loop, the worker threads with their sliding window of column strips,    *)
(* the mpsc channel and the collector loop.                                *)
(*                                                                         *)
(* f64 samples are modelled by small integers, whose sums f64 holds        *)
(* exactly (rounding of sums of fractional samples is not modelled), f64   *)
(* quotients by exact fractions <<numerator, denominator>> in lowest terms *)
(* (for the operand sizes reached here two quotients are the same f64      *)
(* exactly when the fractions are equal), f64::INFINITY by PosInf.         *)
(***************************************************************************)
EXTENDS Integers, Sequences, FiniteSets, TLC

VARIABLES
    args,           \* run's args, each argument split at "="
    verbose,        \* run's verbose
    input,          \* Arc<Raster>: [rows, columns, nodata, data]
    num_procs,      \* num_cpus::get()
    filter_size_x,  \* run's local, requested then normalised
    filter_size_y,
    midpoint_x,
    midpoint_y,
    row_block_size,
    starting_row,
    ending_row,
    id,
    threads,        \* the spawned worker closures, in spawn order
    chan,           \* messages sent on tx1 and not yet received on rx
    output,         \* the output Raster's rows
    row,            \* the collector loop's counter
    received,       \* row indices handed to set_row_data, in arrival order
    old_progress,   \* the progress value printed last
    printed,        \* the progress values printed, in order
    pc,             \* position of the main thread in run
    result          \* what run returned

vars == <<args, verbose, input, num_procs, filter_size_x, filter_size_y,
          midpoint_x, midpoint_y, row_block_size, starting_row, ending_row, id,
          threads, chan, output, row, received, old_progress, printed, pc, result>>

----------------------------------------------------------------------------
(* Bounds of the model *)

\* Rows and columns of the rasters of a run, and processors.
MaxRows == 5
MaxCols == 3
MaxProcs == 2

\* Rows of the rasters the filter is run on column by column, and how many
\* of their cells are no-data.
MaxGridRows == 3
MaxHoles == 2

\* The largest filter size given on the command line, and the number of
\* filter size options of a command line.
MaxWidth == 4
MaxArgs == 2

\* Rows of a raster with more rows than there are progress values.
TallRows == 102

\* Threads the model tells apart.  A dispatch loop that ends spawns at most
\* one thread per row; beyond that number row_block_size is 0 and every
\* block is the empty [0, 0), whatever id is.
MaxSpawn == MaxRows + 1

\* f64::INFINITY: larger than every sample and every sum of samples reached.
PosInf == 1000000
NegInf == 0 - PosInf

----------------------------------------------------------------------------
(* f64 arithmetic on the values reached *)

RECURSIVE GCD(_, _)
GCD(a, b) == IF b = 0 THEN a ELSE GCD(b, a % b)

Abs(a) == IF a < 0 THEN 0 - a ELSE a

\* a / b in f64: 0/0 is NaN (<<0, 0>>), x/0 is an infinity (<<+-1, 0>>).
Div(a, b) ==
    IF b = 0 THEN <<(IF a > 0 THEN 1 ELSE IF a < 0 THEN 0 - 1 ELSE 0), 0>>
    ELSE LET g == GCD(Abs(a), Abs(b))
             s == IF b < 0 THEN 0 - 1 ELSE 1
         IN  <<(s * a) \div g, (s * b) \div g>>

\* An f64 holding the integer sample a.
Real(a) == <<a, 1>>

IsNaN(q) == q = <<0, 0>>

\* f64 == (NaN equals nothing, itself included).
FEq(p, q) == ~IsNaN(p) /\ ~IsNaN(q) /\ p = q

\* F applied to the value of x: x is evaluated once, before F uses it.
Bind(x, F(_)) == CHOOSE y \in {F(v) : v \in {x}} : TRUE

----------------------------------------------------------------------------
(* The raster *)

\* Raster::get_value and Index<(isize, isize)>: the sample, or nodata outside
\* the grid.
GetValue(inp, r, c) ==
    IF r >= 0 /\ r < inp.rows /\ c >= 0 /\ c < inp.columns
    THEN inp.data[r][c]
    ELSE inp.nodata

\* Raster::set_row_data: replaces row r of the raster.
SetRowData(out, r, values) ==
    IF r \in DOMAIN out THEN [out EXCEPT ![r] = values] ELSE out

\* Raster::initialize_using_file: a raster of the input's shape.
InitializeUsingFile(inp) ==
    [r \in 0..(inp.rows - 1) |-> [c \in 1..inp.columns |-> Real(inp.nodata)]]

----------------------------------------------------------------------------
(* The window statistics of one worker *)

\* min_val, max_val, sum and n as set before a strip is scanned.
EmptyStrip == [min_val |-> PosInf, max_val |-> NegInf, sum |-> 0, n |-> 0]

\* One pass of the body of `for row2 in start_row..end_row+1`.
AddSample(inp, acc, z_n) ==
    IF z_n # inp.nodata
    THEN [min_val |-> IF z_n < acc.min_val THEN z_n ELSE acc.min_val,
          max_val |-> IF z_n > acc.max_val THEN z_n ELSE acc.max_val,
          sum     |-> acc.sum + z_n,
          n       |-> acc.n + 1]
    ELSE acc

\* The loop `for row2 in start_row..end_row+1` over grid column col2.
RECURSIVE ScanStrip(_, _, _, _, _)
ScanStrip(inp, row2, end_row, col2, acc) ==
    IF row2 > end_row THEN acc
    ELSE Bind(AddSample(inp, acc, GetValue(inp, row2, col2)),
              LAMBDA a : ScanStrip(inp, row2 + 1, end_row, col2, a))

\* The four VecDeques of a row, as created by VecDeque::with_capacity;
\* pushed counts the strips scanned and pushed on them in the row.
EmptyWindow ==
    [filter_min_vals |-> <<>>, filter_max_vals |-> <<>>, totals |-> <<>>, n_vals |-> <<>>,
     pushed |-> 0]

\* PopFront leaving the deques as they are.
PopFrontKeeps(win) == win

\* pop_front on the four deques (a no-op on an empty VecDeque).
PopFront(win) ==
    [filter_min_vals |-> IF win.filter_min_vals = <<>> THEN <<>> ELSE Tail(win.filter_min_vals),
     filter_max_vals |-> IF win.filter_max_vals = <<>> THEN <<>> ELSE Tail(win.filter_max_vals),
     totals          |-> IF win.totals = <<>> THEN <<>> ELSE Tail(win.totals),
     n_vals          |-> IF win.n_vals = <<>> THEN <<>> ELSE Tail(win.n_vals),
     pushed          |-> win.pushed]

\* PushBack putting the strip at the front of the deques.
PushFront(win, strip) ==
    [filter_min_vals |-> <<strip.min_val>> \o win.filter_min_vals,
     filter_max_vals |-> <<strip.max_val>> \o win.filter_max_vals,
     totals          |-> <<strip.sum>> \o win.totals,
     n_vals          |-> <<strip.n>> \o win.n_vals,
     pushed          |-> win.pushed + 1]

\* push_back of a scanned strip on the four deques.
PushBack(win, strip) ==
    [filter_min_vals |-> Append(win.filter_min_vals, strip.min_val),
     filter_max_vals |-> Append(win.filter_max_vals, strip.max_val),
     totals          |-> Append(win.totals, strip.sum),
     n_vals          |-> Append(win.n_vals, strip.n),
     pushed          |-> win.pushed + 1]

\* Advance with the entering strip scanned at the centre column `col`.
AdvanceAtCentre(inp, win, start_row, end_row, col, mid_x) ==
    Bind(ScanStrip(inp, start_row, end_row, col, EmptyStrip),
         LAMBDA strip : PushBack(PopFront(win), strip))

\* The branch `col > 0`: the oldest strip leaves, the strip of grid column
\* col + midpoint_x enters.
Advance(inp, win, start_row, end_row, col, mid_x) ==
    Bind(ScanStrip(inp, start_row, end_row, col + mid_x, EmptyStrip),
         LAMBDA strip : PushBack(PopFront(win), strip))

\* The branch `col == 0`: the loop `for col2 in start_col..end_col+1`.
RECURSIVE InitialFill(_, _, _, _, _, _)
InitialFill(inp, win, start_row, end_row, col2, end_col) ==
    IF col2 > end_col THEN win
    ELSE Bind(ScanStrip(inp, start_row, end_row, col2, EmptyStrip),
              LAMBDA strip :
                  Bind(PushBack(win, strip),
                       LAMBDA pushed :
                           InitialFill(inp, pushed, start_row, end_row, col2 + 1, end_col)))

\* The loop `for i in 0..filter_size_x` over the deques (i counted from 0).
RECURSIVE Combined(_, _, _, _)
Combined(win, i, size_x, acc) ==
    IF i >= size_x THEN acc
    ELSE Bind([min_val |-> IF win.filter_min_vals[i + 1] < acc.min_val
                           THEN win.filter_min_vals[i + 1] ELSE acc.min_val,
               max_val |-> IF win.filter_max_vals[i + 1] > acc.max_val
                           THEN win.filter_max_vals[i + 1] ELSE acc.max_val,
               sum     |-> acc.sum + win.totals[i + 1],
               n       |-> acc.n + win.n_vals[i + 1]],
              LAMBDA a : Combined(win, i + 1, size_x, a))

\* OlympicMean dividing the trimmed sum by the untrimmed count.
OlympicMeanKeepsCount(agg) ==
    IF agg.n > 2
    THEN Div(agg.sum - agg.max_val - agg.min_val, agg.n)
    ELSE Div(agg.sum, agg.n)

\* OlympicMean trimming from two samples on (`n >= 2`).
OlympicMeanTrimsPair(agg) ==
    IF agg.n >= 2
    THEN Div(agg.sum - agg.max_val - agg.min_val, agg.n - 2)
    ELSE Div(agg.sum, agg.n)

\* The value stored in data[col] for a valid centre: the branches on n > 2.
OlympicMean(agg) ==
    IF agg.n > 2
    THEN Div(agg.sum - agg.max_val - agg.min_val, agg.n - 2)
    ELSE Div(agg.sum, agg.n)

\* StoreCell leaving no-data when a strip of the window holds no sample.
StoreCellFullStrips(inp, data, r, col, win, size_x) ==
    IF GetValue(inp, r, col) # inp.nodata /\ \A i \in 1..size_x : win.n_vals[i] > 0
    THEN Bind(Combined(win, 0, size_x, EmptyStrip),
              LAMBDA agg : [data EXCEPT ![col + 1] = OlympicMean(agg)])
    ELSE data

\* StoreCell without the test of the centre sample.
StoreCellUngated(inp, data, r, col, win, size_x) ==
    Bind(Combined(win, 0, size_x, EmptyStrip),
         LAMBDA agg : [data EXCEPT ![col + 1] = OlympicMean(agg)])

\* `z = input[(row, col)]; if z != nodata { ... }`: data after column col.
StoreCell(inp, data, r, col, win, size_x) ==
    IF GetValue(inp, r, col) # inp.nodata
    THEN Bind(Combined(win, 0, size_x, EmptyStrip),
              LAMBDA agg : [data EXCEPT ![col + 1] = OlympicMean(agg)])
    ELSE data

----------------------------------------------------------------------------
(* The main thread *)

\* str::parse::<usize>: the number a decimal numeral denotes, Err (-1)
\* for any other string.
ParseUsize(str) ==
    IF \E v \in 0..MaxWidth : ToString(v) = str
    THEN CHOOSE v \in 0..MaxWidth : ToString(v) = str
    ELSE 0 - 1

\* args[i+1].to_string(): the argument after the i-th as typed (an argument
\* holding "=" is no numeral); indexing past the end of args panics.
NextArg(argv, i) ==
    IF i + 1 > Len(argv) THEN "panic"
    ELSE IF Len(argv[i + 1]) = 1 THEN argv[i + 1][1] ELSE "="

\* One pass of `for i in 0..args.len()`, lines 81-120 (i counted from 1):
\* the sizes after the i-th argument, ok false once an unwrap or an index
\* has panicked.
ArgStep(argv, i, st) ==
    LET vec    == argv[i]
        keyval == Len(vec) > 1
        value  == ParseUsize(IF keyval THEN vec[2] ELSE NextArg(argv, i))
    IN  IF vec[1] \in {"-i", "--input", "-o", "--output"}
        THEN [st EXCEPT !.ok = keyval \/ NextArg(argv, i) # "panic"]
        ELSE IF vec[1] \in {"-filter", "--filter"}
        THEN IF value < 0 THEN [st EXCEPT !.ok = FALSE]
             ELSE [st EXCEPT !.x = value, !.y = value]
        ELSE IF vec[1] \in {"-filterx", "--filterx"}
        THEN IF value < 0 THEN [st EXCEPT !.ok = FALSE]
             ELSE [st EXCEPT !.x = value]
        ELSE IF vec[1] \in {"-filtery", "--filtery"}
        THEN IF value < 0 THEN [st EXCEPT !.ok = FALSE]
             ELSE [st EXCEPT !.y = value]
        ELSE st

\* The loop `for i in 0..args.len()`.
RECURSIVE ArgLoop(_, _, _)
ArgLoop(argv, i, st) ==
    IF i > Len(argv) \/ ~st.ok THEN st
    ELSE Bind(ArgStep(argv, i, st), LAMBDA next : ArgLoop(argv, i + 1, next))

\* Lines 72-121: the check of args.len() and the argument loop.
ParseArgs ==
    /\ pc = "args"
    /\ IF Len(args) = 0
       THEN /\ result' = "Err"
            /\ pc' = "done"
            /\ UNCHANGED <<filter_size_x, filter_size_y>>
       ELSE \E st \in {ArgLoop(args, 1, [x |-> filter_size_x, y |-> filter_size_y,
                                         ok |-> TRUE])} :
                /\ filter_size_x' = st.x
                /\ filter_size_y' = st.y
                /\ pc' = IF st.ok THEN "start" ELSE "panicked"
                /\ UNCHANGED result
    /\ UNCHANGED <<args, verbose, input, num_procs, midpoint_x, midpoint_y,
                   row_block_size, starting_row, ending_row, id, threads, chan,
                   output, row, received, old_progress, printed>>

\* NormalizeSize taking an even size down to the odd size below it.
NormalizeSizeRoundsDown(size) ==
    LET clamped == IF size < 3 THEN 3 ELSE size
    IN  IF clamped % 2 = 0 THEN clamped - 1 ELSE clamped

\* `if filter_size < 3 { 3 }`, then one more when the half is a whole number.
NormalizeSize(size) ==
    LET clamped == IF size < 3 THEN 3 ELSE size
    IN  IF clamped % 2 = 0 THEN clamped + 1 ELSE clamped

\* (filter_size as f64 / 2f64).floor() as isize
Midpoint(size) == size \div 2

\* A worker closure as thread::spawn receives it; reads holds the
\* coordinates of the input read for the row being computed.
NewThread(first, last) ==
    [starting_row |-> first, ending_row |-> last, row |-> first, col |-> 0,
     start_row |-> 0, end_row |-> 0, win |-> EmptyWindow, data |-> <<>>,
     reads |-> {}, pc |-> "for_row"]

\* Senders with run's own tx dropped before the collector loop.
SendersWorkersOnly(ths, mainpc) ==
    Cardinality({w \in DOMAIN ths : ths[w].pc \in {"for_row", "for_col"}})

\* Senders of the channel still alive: run's own tx until run ends, and
\* the tx1 clone of every thread that has not ended.
Senders(ths, mainpc) ==
    (IF mainpc \in {"done", "panicked"} THEN 0 ELSE 1)
    + Cardinality({w \in DOMAIN ths : ths[w].pc \in {"for_row", "for_col"}})

\* rx.recv(): a message, Err once the channel is empty and every sender is
\* gone, and blocked otherwise.
Recv(ch, senders) ==
    IF ch # <<>> THEN "Ok" ELSE IF senders = 0 THEN "Err" ELSE "Blocked"

\* Lines 131-169: normalisation, output raster, scheduler variables, channel.
Setup ==
    /\ pc = "start"
    /\ filter_size_x' = NormalizeSize(filter_size_x)
    /\ filter_size_y' = NormalizeSize(filter_size_y)
    /\ midpoint_x' = Midpoint(NormalizeSize(filter_size_x))
    /\ midpoint_y' = Midpoint(NormalizeSize(filter_size_y))
    /\ output' = InitializeUsingFile(input)
    /\ ending_row' = 0
    /\ row_block_size' = input.rows \div num_procs
    /\ id' = 0
    /\ chan' = <<>>
    /\ row' = 0
    /\ pc' = IF 0 < input.rows THEN "dispatch" ELSE "write"
    /\ UNCHANGED <<args, verbose, input, num_procs, starting_row, threads,
                   received, old_progress, printed, result>>

\* One pass of `while ending_row < rows`, lines 170-272.  From the
\* MaxSpawn-th thread on, id is no longer counted (id * 0 is 0 anyway) and
\* the new thread, whose block is [0, 0) as that of the thread before it,
\* is kept in that thread's place.
Dispatch ==
    /\ pc = "dispatch"
    /\ ending_row < input.rows
    /\ LET first == id * row_block_size
           last  == IF first + row_block_size > input.rows
                    THEN input.rows ELSE first + row_block_size
       IN  /\ starting_row' = first
           /\ ending_row' = last
           /\ IF id < MaxSpawn
              THEN /\ id' = id + 1
                   /\ threads' = Append(threads, NewThread(first, last))
              ELSE /\ id' = id
                   /\ threads' = [threads EXCEPT ![Len(threads)] = NewThread(first, last)]
           /\ pc' = IF last < input.rows THEN "dispatch" ELSE "collect"
    /\ UNCHANGED <<args, verbose, input, num_procs, filter_size_x, filter_size_y,
                   midpoint_x, midpoint_y, row_block_size, chan, output, row,
                   received, old_progress, printed, result>>

\* StoreMessage addressing the row by the collector's loop counter.
StoreMessageByArrival(out, data) == SetRowData(out, row, data[2])

\* output.set_row_data(data.0, data.1), line 276.
StoreMessage(out, data) == SetRowData(out, data[1], data[2])

\* `as usize` of an f64: the integer part, saturating; NaN gives 0 (the
\* largest usize is modelled by PosInf).
AsUsize(q) ==
    IF q[2] = 0 THEN (IF q[1] > 0 THEN PosInf ELSE 0)
    ELSE IF q[1] < 0 THEN 0 ELSE q[1] \div q[2]

\* ProgressRow taking the row index of the message received.
ProgressRowOfMessage(count, data) == data[1]

\* The `row` of line 278: the collector's loop counter.
ProgressRow(count, data) == count

\* (100.0_f64 * row as f64 / (rows - 1) as f64) as usize, line 278.
Progress(r, rows) == AsUsize(Div(100 * r, rows - 1))

\* Lines 277-283: the progress value is printed when it differs from
\* old_progress.
Report(progress) ==
    IF verbose /\ progress # old_progress
    THEN /\ printed' = Append(printed, progress)
         /\ old_progress' = progress
    ELSE UNCHANGED <<printed, old_progress>>

\* One pass of `for row in 0..rows`, lines 274-284: recv().unwrap(), then
\* set_row_data(data.0, data.1) and the progress report.
Collect ==
    /\ pc = "collect"
    /\ row < input.rows
    /\ Recv(chan, Senders(threads, pc)) # "Blocked"
    /\ IF Recv(chan, Senders(threads, pc)) = "Ok"
       THEN /\ output' = StoreMessage(output, Head(chan))
            /\ received' = Append(received, Head(chan)[1])
            /\ chan' = Tail(chan)
            /\ Report(Progress(ProgressRow(row, Head(chan)), input.rows))
            /\ row' = row + 1
            /\ pc' = IF row + 1 < input.rows THEN "collect" ELSE "write"
       ELSE /\ pc' = "panicked"
            /\ UNCHANGED <<output, received, chan, row, old_progress, printed>>
    /\ UNCHANGED <<args, verbose, input, num_procs, filter_size_x, filter_size_y,
                   midpoint_x, midpoint_y, row_block_size, starting_row, ending_row,
                   id, threads, result>>

\* Lines 286-302: output.write() and the return of run.
Write ==
    /\ pc = "write"
    /\ \E r \in {"Ok", "Err"} : result' = r
    /\ pc' = "done"
    /\ UNCHANGED <<args, verbose, input, num_procs, filter_size_x, filter_size_y,
                   midpoint_x, midpoint_y, row_block_size, starting_row, ending_row,
                   id, threads, chan, output, row, received, old_progress, printed>>

----------------------------------------------------------------------------
(* The worker threads *)

ThreadFrame ==
    <<args, verbose, input, num_procs, filter_size_x, filter_size_y, midpoint_x,
      midpoint_y, row_block_size, starting_row, ending_row, id, output, row,
      received, old_progress, printed, pc, result>>

\* BeginRow with the window starting below the centre row.
BeginRowBelow(t, inp, mid_y) ==
    [t EXCEPT !.win = EmptyWindow,
              !.start_row = t.row + 1,
              !.end_row = t.row + mid_y,
              !.data = [c \in 1..inp.columns |-> Real(inp.nodata)],
              !.reads = {},
              !.col = 0,
              !.pc = "for_col"]

\* BeginRow with a window one row taller at the bottom.
BeginRowTaller(t, inp, mid_y) ==
    [t EXCEPT !.win = EmptyWindow,
              !.start_row = t.row - mid_y,
              !.end_row = t.row + mid_y + 1,
              !.data = [c \in 1..inp.columns |-> Real(inp.nodata)],
              !.reads = {},
              !.col = 0,
              !.pc = "for_col"]

\* Top of `for row in starting_row..ending_row`, lines 189-196.
BeginRow(t, inp, mid_y) ==
    [t EXCEPT !.win = EmptyWindow,
              !.start_row = t.row - mid_y,
              !.end_row = t.row + mid_y,
              !.data = [c \in 1..inp.columns |-> Real(inp.nodata)],
              !.reads = {},
              !.col = 0,
              !.pc = "for_col"]

\* The coordinates one pass of the column loop reads: the strip entering
\* the window (lines 207-208), or the strips of the initial fill (lines
\* 224-230), and the centre (line 244).
ReadCoords(t, mid_x) ==
    {<<t.row, t.col>>}
    \cup ((t.start_row..t.end_row)
              \X (IF t.col > 0 THEN {t.col + mid_x}
                  ELSE (t.col - mid_x)..(t.col + mid_x)))

\* One pass of `for col in 0..columns`, lines 197-268.
ColumnStep(t, inp, mid_x, size_x) ==
    Bind(IF t.col > 0
         THEN Advance(inp, t.win, t.start_row, t.end_row, t.col, mid_x)
         ELSE InitialFill(inp, t.win, t.start_row, t.end_row,
                          t.col - mid_x, t.col + mid_x),
         LAMBDA win :
             [t EXCEPT !.win = win,
                       !.data = StoreCell(inp, t.data, t.row, t.col, win, size_x),
                       !.reads = t.reads \cup ReadCoords(t, mid_x),
                       !.col = t.col + 1])

\* The whole loop `for col in 0..columns`.
RECURSIVE AllColumns(_, _, _, _)
AllColumns(t, inp, mid_x, size_x) ==
    IF t.col >= inp.columns THEN t
    ELSE Bind(ColumnStep(t, inp, mid_x, size_x),
              LAMBDA next : AllColumns(next, inp, mid_x, size_x))

\* The message of line 269.
Message(t) == <<t.row, t.data>>

\* tx1.send((row, data)).unwrap(), line 269, and the step to the next row:
\* send fails, and unwrap panics, only when the receiver is gone.
SendRow(w, t) ==
    IF pc \notin {"done", "panicked"}
    THEN /\ chan' = Append(chan, Message(t))
         /\ threads' = [threads EXCEPT ![w] = [t EXCEPT !.row = t.row + 1, !.pc = "for_row"]]
    ELSE /\ threads' = [threads EXCEPT ![w] = [t EXCEPT !.pc = "panicked"]]
         /\ UNCHANGED chan

\* A worker computes and sends one row, lines 189-270.  The computation
\* reads the shared raster only and writes the thread's own locals, so it is
\* taken as one step.
Row(w) ==
    /\ threads[w].pc = "for_row"
    /\ threads[w].row < threads[w].ending_row
    /\ \E t \in {AllColumns(BeginRow(threads[w], input, midpoint_y),
                              input, midpoint_x, filter_size_x)} : SendRow(w, t)
    /\ UNCHANGED ThreadFrame

\* The same loop body taken one column at a time.
StartRow(w) ==
    /\ threads[w].pc = "for_row"
    /\ threads[w].row < threads[w].ending_row
    /\ threads' = [threads EXCEPT ![w] = BeginRow(threads[w], input, midpoint_y)]
    /\ UNCHANGED <<chan>>
    /\ UNCHANGED ThreadFrame

Column(w) ==
    /\ threads[w].pc = "for_col"
    /\ threads[w].col < input.columns
    /\ threads' = [threads EXCEPT ![w] =
            ColumnStep(threads[w], input, midpoint_x, filter_size_x)]
    /\ UNCHANGED <<chan>>
    /\ UNCHANGED ThreadFrame

Send(w) ==
    /\ threads[w].pc = "for_col"
    /\ threads[w].col >= input.columns
    /\ SendRow(w, threads[w])
    /\ UNCHANGED ThreadFrame

\* The closure returns after its last row: the thread ends, tx1 is dropped.
Exit(w) ==
    /\ threads[w].pc = "for_row"
    /\ threads[w].row >= threads[w].ending_row
    /\ threads' = [threads EXCEPT ![w] = [@ EXCEPT !.pc = "exited"]]
    /\ UNCHANGED <<chan>>
    /\ UNCHANGED ThreadFrame

\* A worker panics while it computes a row: the thread ends without sending
\* that row, tx1 is dropped.
Panic(w) ==
    /\ threads[w].pc = "for_row"
    /\ threads[w].row < threads[w].ending_row
    /\ threads' = [threads EXCEPT ![w] = [@ EXCEPT !.pc = "panicked"]]
    /\ UNCHANGED <<chan>>
    /\ UNCHANGED ThreadFrame

----------------------------------------------------------------------------
(* Inputs *)

\* Filter sizes <<x, y>> asked for on the command line.
RequestedSizes == {<<3, 3>>, <<3, 4>>, <<4, 3>>}

\* The argument naming the input file.
InputOption == << <<"-i", "image.dep">> >>

\* An option of the command line: `flag=v`, or `flag v` in two arguments.
Option(flag, v, keyval) ==
    IF keyval THEN << <<flag, ToString(v)>> >> ELSE << <<flag>>, <<ToString(v)>> >>

\* The command line asking for the filter sizes <<x, y>>.
SizeArgs(size) ==
    InputOption \o Option("--filterx", size[1], TRUE)
                \o Option("--filtery", size[2], TRUE)

\* The filter size options.
Options ==
    {Option(flag, v, keyval) :
        flag \in {"--filter", "--filterx", "--filtery"}, v \in 0..MaxWidth,
        keyval \in BOOLEAN}

\* The command lines of at most n filter size options, in every order.
RECURSIVE CommandLines(_)
CommandLines(n) ==
    IF n = 0 THEN {InputOption}
    ELSE LET shorter == CommandLines(n - 1)
         IN  shorter \cup {line \o option : line \in shorter, option \in Options}

\* A command line whose last option lacks its value.
TruncatedLines == {InputOption \o << <<flag>> >> : flag \in {"--filter", "--filterx"}}

\* The grid of MaxCols columns of the samples 1, 2, 3, ... in row-major
\* order, whole or with its first cell missing; no-data is -999.
RampInputs ==
    { [rows |-> nr, columns |-> nc, nodata |-> 0 - 999,
       data |-> [r \in 0..(nr - 1) |-> [c \in 0..(nc - 1) |->
                    IF hole /\ r = 0 /\ c = 0 THEN 0 - 999 ELSE r * nc + c + 1]]] :
      nr \in 0..MaxRows, nc \in {MaxCols}, hole \in BOOLEAN }

\* The samples 1, 3, 5 laid out diagonally (equal samples recur, rows and
\* columns differ); the no-data value 2 lies between them.
Sample(r, c) == 1 + 2 * ((r + c) % 3)

\* The sets of no-data cells of an nr x nc grid.
Masks(nr, nc) ==
    {holes \in SUBSET ((0..(nr - 1)) \X (0..(nc - 1))) :
        Cardinality(holes) <= MaxHoles}

\* The grids obtained from the samples by making such a set of cells no-data.
MaskedInputs ==
    UNION { { [rows |-> nr, columns |-> nc, nodata |-> 2,
               data |-> [r \in 0..(nr - 1) |-> [c \in 0..(nc - 1) |->
                            IF <<r, c>> \in holes THEN 2 ELSE Sample(r, c)]]] :
              holes \in Masks(nr, nc) } :
            nr \in 1..MaxGridRows, nc \in 1..MaxCols }

\* run is entered: the locals are as declared (filter sizes 11, lines
\* 74-75; old_progress 1, line 146), nothing is dispatched.
InitWith(inputs, procs, lines, verbosity) ==
    /\ args \in lines
    /\ verbose \in verbosity
    /\ input \in inputs
    /\ num_procs \in procs
    /\ filter_size_x = 11
    /\ filter_size_y = 11
    /\ old_progress = 1
    /\ printed = <<>>
    /\ midpoint_x = 0
    /\ midpoint_y = 0
    /\ row_block_size = 0
    /\ starting_row = 0
    /\ ending_row = 0
    /\ id = 0
    /\ threads = <<>>
    /\ chan = <<>>
    /\ output = <<>>
    /\ row = 0
    /\ received = <<>>
    /\ pc = "args"
    /\ result = "none"

----------------------------------------------------------------------------
(* The run: scheduler, workers and collector *)

Init == InitWith(RampInputs, 1..MaxProcs, {SizeArgs(<<4, 3>>)}, {TRUE})

Next ==
    \/ ParseArgs
    \/ Setup
    \/ Dispatch
    \/ Collect
    \/ Write
    \/ \E w \in DOMAIN threads : Row(w)
    \/ \E w \in DOMAIN threads : Exit(w)

Spec == Init /\ [][Next]_vars

\* Every thread is scheduled: the run goes on while the main thread or a
\* worker has a step to take.  Each step moves a loop forward and the loops
\* are bounded, so this gives every thread all of its steps.
Fairness == WF_vars(Next)

FairSpec == Spec /\ Fairness

\* The run with workers that may panic.
FaultNext ==
    \/ Next
    \/ \E w \in DOMAIN threads : Panic(w)

FaultSpec == Init /\ [][FaultNext]_vars

----------------------------------------------------------------------------
(* The filter: one worker, taken column by column, on the masked grids *)

FilterInit ==
    InitWith(MaskedInputs, {1}, {SizeArgs(size) : size \in RequestedSizes}, {FALSE})

FilterNext ==
    \/ ParseArgs
    \/ Setup
    \/ Dispatch
    \/ Collect
    \/ Write
    \/ \E w \in DOMAIN threads : StartRow(w)
    \/ \E w \in DOMAIN threads : Column(w)
    \/ \E w \in DOMAIN threads : Send(w)
    \/ \E w \in DOMAIN threads : Exit(w)

FilterSpec == FilterInit /\ [][FilterNext]_vars

----------------------------------------------------------------------------
(* The command line: every order of the options, on a raster of one row *)

ArgInit ==
    InitWith({inp \in RampInputs : inp.rows = 1 /\ inp.data[0][0] # inp.nodata},
             {1}, CommandLines(MaxArgs) \cup TruncatedLines \cup {<<>>}, {FALSE})

ArgSpec == ArgInit /\ [][Next]_vars

----------------------------------------------------------------------------
(* Progress: the runs of Spec, and one worker on a raster of one column
   with more rows than progress values, verbose or not *)

TallInputs ==
    { [rows |-> TallRows, columns |-> 1, nodata |-> 0 - 999,
       data |-> [r \in 0..(TallRows - 1) |-> [c \in {0} |-> r + 1]]] }

ProgressInit ==
    \/ Init
    \/ InitWith(TallInputs, {1}, {SizeArgs(<<3, 3>>)}, BOOLEAN)

ProgressSpec == ProgressInit /\ [][Next]_vars

----------------------------------------------------------------------------
(* Properties *)

\* The threads whose block [starting_row, ending_row) holds row r.
Owners(r) ==
    {w \in DOMAIN threads :
        threads[w].starting_row <= r /\ r < threads[w].ending_row}

\* C1: the blocks the scheduler loop dispatches never overlap, and they come
\* to hold every row index of [0, rows) exactly once.
C1_Partition ==
    /\ [](\A r \in 0..(input.rows - 1) : Cardinality(Owners(r)) <= 1)
    /\ <>(\A r \in 0..(input.rows - 1) : Cardinality(Owners(r)) = 1)

\* C2: with no failing worker and fair scheduling the dispatch loop exits,
\* the collector receives all `rows` messages and run reaches output.write().
C2_RunToCompletion ==
    <>(pc \in {"write", "done"} /\ Len(received) = input.rows)

\* Row indices of the messages sent so far: those received, then those
\* still in the channel.
Delivered == received \o [i \in 1..Len(chan) |-> chan[i][1]]

\* C3: over a whole run the workers send one message per row index of
\* [0, rows) and no other: no message is sent for a row index outside
\* [0, rows) or sent twice, and the run comes to the end of the collector
\* loop with every row index handed to set_row_data once and the channel
\* empty.
C3_ExactlyOnce ==
    /\ [](\A i \in 1..Len(Delivered) : Delivered[i] \in 0..(input.rows - 1))
    /\ [](\A i, j \in 1..Len(Delivered) : i # j => Delivered[i] # Delivered[j])
    /\ <>(/\ pc \in {"write", "done"}
          /\ chan = <<>>
          /\ Len(received) = input.rows
          /\ {received[i] : i \in 1..Len(received)} = 0..(input.rows - 1))

----------------------------------------------------------------------------
(* The window scanned cell by cell *)

\* The sample at (r2, c2) when it counts: inside the grid and not no-data.
Valid(inp, r2, c2) == GetValue(inp, r2, c2) # inp.nodata

\* Sum and count of the valid samples of row r2 between columns c2 and last.
RECURSIVE CellSum(_, _, _, _)
CellSum(inp, r2, c2, last) ==
    IF c2 > last THEN 0
    ELSE (IF Valid(inp, r2, c2) THEN GetValue(inp, r2, c2) ELSE 0)
         + CellSum(inp, r2, c2 + 1, last)

RECURSIVE RectSum(_, _, _, _, _)
RectSum(inp, r2, last_row, first_col, last_col) ==
    IF r2 > last_row THEN 0
    ELSE CellSum(inp, r2, first_col, last_col)
         + RectSum(inp, r2 + 1, last_row, first_col, last_col)

\* The aggregate of the rectangle [r-mid_y, r+mid_y] x [c-mid_x, c+mid_x].
BruteForce(inp, r, c, mid_x, mid_y) ==
    LET cells == {rc \in ((r - mid_y)..(r + mid_y)) \X ((c - mid_x)..(c + mid_x)) :
                     Valid(inp, rc[1], rc[2])}
        vals  == {GetValue(inp, rc[1], rc[2]) : rc \in cells}
    IN  [min_val |-> IF vals = {} THEN PosInf
                     ELSE CHOOSE m \in vals : \A v \in vals : m <= v,
         max_val |-> IF vals = {} THEN NegInf
                     ELSE CHOOSE m \in vals : \A v \in vals : m >= v,
         sum     |-> RectSum(inp, r - mid_y, r + mid_y, c - mid_x, c + mid_x),
         n       |-> Cardinality(cells)]

\* The collector loop is over: the output raster is what output.write() gets.
Collected == pc = "write"

\* The cells of the raster.
Cells == (0..(input.rows - 1)) \X (0..(input.columns - 1))

\* The output value of cell rc.
Out(rc) == output[rc[1]][rc[2] + 1]

\* The window aggregate of cell rc.
Window(rc) == BruteForce(input, rc[1], rc[2], midpoint_x, midpoint_y)

\* C4: after a worker has processed column c of its row, the reduction of
\* the strips in its sliding window equals the aggregate of the rectangle
\* around (row, c) scanned cell by cell.
C4_TrackerEqualsBruteForce ==
    \A w \in DOMAIN threads :
        \A t \in {threads[w]} :
            (t.pc = "for_col" /\ t.col >= 1) =>
                Combined(t.win, 0, filter_size_x, EmptyStrip)
                    = BruteForce(input, t.row, t.col - 1, midpoint_x, midpoint_y)

\* The window has advanced onto a column of the grid, and holds both valid
\* and no-data samples.
C4_Witness ==
    \E w \in DOMAIN threads :
        /\ threads[w].pc = "for_col"
        /\ threads[w].col = 2
        /\ input.columns >= 3
        /\ filter_size_x = 3
        /\ threads[w].win.n_vals[3] >= 1
        /\ \E c \in 0..2 : ~Valid(input, threads[w].row, c)
        /\ BruteForce(input, threads[w].row, 1, midpoint_x, midpoint_y).n >= 3

\* C5: a cell whose input is no-data has no-data as output.
C5_CenterGating ==
    Collected =>
        \A rc \in Cells :
            ~Valid(input, rc[1], rc[2]) => FEq(Out(rc), Real(input.nodata))

\* A collected no-data cell with at least three valid neighbours.
C5_Witness ==
    /\ Collected
    /\ \E rc \in Cells :
          /\ ~Valid(input, rc[1], rc[2])
          /\ Window(rc).n >= 3
          /\ FEq(Out(rc), Real(input.nodata))

\* C6: a valid cell whose window holds more than two valid samples gets
\* (sum - max - min) / (count - 2) over all valid samples of the window.
C6_TrimmedMean ==
    Collected =>
        \A rc \in Cells :
            \A agg \in {Window(rc)} :
                (Valid(input, rc[1], rc[2]) /\ agg.n > 2) =>
                    FEq(Out(rc), Div(agg.sum - agg.max_val - agg.min_val, agg.n - 2))

\* The number of valid samples of the window of rc that equal v.
Occurrences(rc, v) ==
    Cardinality({xy \in ((rc[1] - midpoint_y)..(rc[1] + midpoint_y))
                        \X ((rc[2] - midpoint_x)..(rc[2] + midpoint_x)) :
                    Valid(input, xy[1], xy[2]) /\ GetValue(input, xy[1], xy[2]) = v})

\* A collected valid cell whose window holds its maximum more than once.
C6_Witness ==
    /\ Collected
    /\ \E rc \in Cells :
          /\ Valid(input, rc[1], rc[2])
          /\ Window(rc).n > 3
          /\ Window(rc).min_val < Window(rc).max_val
          /\ Occurrences(rc, Window(rc).max_val) >= 2

\* C7: a valid cell whose window holds one or two valid samples gets their
\* plain mean sum / count.
C7_UntrimmedFallback ==
    Collected =>
        \A rc \in Cells :
            \A agg \in {Window(rc)} :
                (Valid(input, rc[1], rc[2]) /\ agg.n \in {1, 2}) =>
                    FEq(Out(rc), Div(agg.sum, agg.n))

\* A collected valid cell with exactly two valid samples in its window, which
\* differ.
C7_Witness ==
    /\ Collected
    /\ \E rc \in Cells :
          /\ Valid(input, rc[1], rc[2])
          /\ Window(rc).n = 2
          /\ Window(rc).min_val < Window(rc).max_val

----------------------------------------------------------------------------
(* Failure and arrival order *)

\* C9: once a worker has panicked before sending one of its rows, the
\* collector never has all `rows` messages, recv never returns an error, and
\* run never reaches output.write().
C9_FailureBlocksCollector ==
    (\E w \in DOMAIN threads : threads[w].pc = "panicked") =>
        /\ pc \in {"dispatch", "collect"}
        /\ Len(received) < input.rows
        /\ result = "none"

\* The collector blocked in recv with every worker gone, one of them by a
\* panic.
C9_Witness ==
    /\ pc = "collect"
    /\ chan = <<>>
    /\ \E w \in DOMAIN threads : threads[w].pc = "panicked"
    /\ \E w \in DOMAIN threads : threads[w].pc = "exited"
    /\ \A w \in DOMAIN threads : threads[w].pc \in {"panicked", "exited"}
    /\ Recv(chan, Senders(threads, pc)) = "Blocked"

\* The OutputRow a worker computes for row index r.
OutputRow(r) ==
    AllColumns(BeginRow(NewThread(r, r + 1), input, midpoint_y),
               input, midpoint_x, filter_size_x).data

\* C10: whatever the arrival order, after the collector loop row r of the
\* output handed to output.write() is the OutputRow computed for row index r.
C10_OrderIndependence ==
    Collected =>
        \A r \in 0..(input.rows - 1) : output[r] = OutputRow(r)

\* A run at output.write() whose messages did not arrive in row order.
C10_Witness ==
    /\ Collected
    /\ input.rows >= 3
    /\ \E i, j \in 1..Len(received) : i < j /\ received[i] > received[j]

----------------------------------------------------------------------------
(* The blocks of the scheduler *)

Min(a, b) == IF a < b THEN a ELSE b

\* The dispatch loop is over.
Dispatched == pc \in {"collect", "write", "done"}

\* C11: the scheduler never spawns more workers than min(num_procs, rows),
\* and when the dispatch loop is over it has spawned exactly that many.
C11_NumberOfBlocks ==
    /\ id <= Min(num_procs, input.rows)
    /\ Dispatched => id = Min(num_procs, input.rows)

\* Rows of the block of the w-th worker.
BlockRows(w) == threads[w].ending_row - threads[w].starting_row

\* C12: with P = min(num_procs, rows), every block but the final one has
\* floor(rows / P) rows, the final block has those and the remainder
\* rows mod P, and no block has more rows than the final one.
C12_BlockSizes ==
    (Dispatched /\ threads # <<>>) =>
        LET P == Min(num_procs, input.rows)
        IN  /\ \A w \in 1..(Len(threads) - 1) : BlockRows(w) = input.rows \div P
            /\ BlockRows(Len(threads)) = (input.rows \div P) + (input.rows % P)
            /\ \A w \in 1..Len(threads) : BlockRows(w) <= BlockRows(Len(threads))

----------------------------------------------------------------------------
(* Filter sizes *)

\* The size `width` and the half-width `half` are those of the requested
\* size w.
Normalized(w, width, half) ==
    /\ width % 2 = 1
    /\ width >= 3
    /\ w < 3 => width = 3
    /\ (w >= 4 /\ w % 2 = 0) => width = w + 1
    /\ (w >= 3 /\ w % 2 = 1) => width = w
    /\ 2 * half <= width /\ width < 2 * half + 2
    /\ Cardinality((0 - half)..half) = width

\* C13: the step that normalises the requested sizes (x and y each) leaves
\* an odd size >= 3: 3 for a request below 3, w + 1 for an even w >= 4, w
\* for an odd w >= 3; the half-width is floor(size / 2) and the window
\* [-half, +half] holds exactly `size` columns (rows).
C13_WidthNormalization ==
    [][pc = "start" =>
          /\ Normalized(filter_size_x, filter_size_x', midpoint_x')
          /\ Normalized(filter_size_y, filter_size_y', midpoint_y')]_vars

\* An even request and a request below 3 have been normalised.
C13_Witness ==
    /\ args = InputOption \o Option("--filterx", 4, TRUE) \o Option("--filtery", 0, FALSE)
    /\ pc = "dispatch"
    /\ filter_size_x = 5 /\ midpoint_x = 2
    /\ filter_size_y = 3 /\ midpoint_y = 1

\* The value given with the option at position i of the command line.
OptionValue(i) ==
    ParseUsize(IF Len(args[i]) > 1 THEN args[i][2] ELSE args[i + 1][1])

\* The values given with the options named flag.
ValuesOf(flag) == {OptionValue(i) : i \in {j \in 1..Len(args) : args[j][1] = flag}}

\* C15: after the argument loop, when --filter is among the arguments both
\* filter sizes are a value given with --filter, whatever --filterx and
\* --filtery give and wherever they stand; with no size option both are 11.
C15_FilterPrecedence ==
    pc = "start" =>
        /\ ValuesOf("--filter") # {} =>
              /\ filter_size_x \in ValuesOf("--filter")
              /\ filter_size_y \in ValuesOf("--filter")
        /\ (ValuesOf("--filter") \cup ValuesOf("--filterx") \cup ValuesOf("--filtery") = {}) =>
              (filter_size_x = 11 /\ filter_size_y = 11)

----------------------------------------------------------------------------
(* No-data in the output *)

\* C14 as claimed: a cell whose centre is valid has an output that differs
\* from no-data, whatever its neighbours are.
C14_NoSpuriousNoData ==
    Collected =>
        \A rc \in Cells :
            Valid(input, rc[1], rc[2]) => ~FEq(Out(rc), Real(input.nodata))

\* The mean of an aggregate: trimmed above two samples, plain otherwise.
MeanOf(agg) ==
    IF agg.n > 2 THEN Div(agg.sum - agg.max_val - agg.min_val, agg.n - 2)
    ELSE Div(agg.sum, agg.n)

\* C14 amended: an output cell is no-data only if its centre is no-data or
\* the mean of the valid samples of its window is itself the no-data value;
\* no-data neighbours alone never make it no-data.
C14_NoDataOnlyByCentreOrMean ==
    Collected =>
        \A rc \in Cells :
            FEq(Out(rc), Real(input.nodata)) =>
                \/ ~Valid(input, rc[1], rc[2])
                \/ FEq(MeanOf(Window(rc)), Real(input.nodata))

\* The no-data cells of the grid inside the window of rc.
Holes(rc) ==
    {xy \in Cells : /\ ~Valid(input, xy[1], xy[2])
                    /\ xy[1] - rc[1] \in (0 - midpoint_y)..midpoint_y
                    /\ xy[2] - rc[2] \in (0 - midpoint_x)..midpoint_x}

\* A collected valid cell with no-data neighbours whose output is a mean,
\* not no-data.
C14_Witness ==
    /\ Collected
    /\ \E rc \in Cells :
          /\ Valid(input, rc[1], rc[2])
          /\ Holes(rc) # {}
          /\ ~FEq(Out(rc), Real(input.nodata))

----------------------------------------------------------------------------
(* The sliding window *)

\* The workers that have just processed a column: its index is col - 1.
AtColumn == {w \in DOMAIN threads : threads[w].pc = "for_col" /\ threads[w].col >= 1}

\* The lengths of the four deques.
Lengths(win) ==
    {Len(win.filter_min_vals), Len(win.filter_max_vals), Len(win.totals), Len(win.n_vals)}

\* C16: the four deques always have one length; it is filter_size_x after
\* every processed column (reduction evaluated, advance done), and differs
\* only for the empty deques of a row whose column 0 is not processed yet.
C16_WindowLength ==
    /\ \A w \in DOMAIN threads :
          Lengths(threads[w].win) \in {{0}, {filter_size_x}}
    /\ \A w \in AtColumn : Lengths(threads[w].win) = {filter_size_x}

\* The window has advanced twice on a grid of three columns.
C16_Witness ==
    \E w \in AtColumn :
        /\ threads[w].col = 3
        /\ filter_size_x = 5
        /\ Lengths(threads[w].win) = {5}

\* C17: after column c of a row is processed, the i-th strip of the window
\* is the aggregate of grid column c - midpoint_x + i over the rows
\* [row - midpoint_y, row + midpoint_y], and filter_size_x + c strips were
\* scanned in the row so far: filter_size_x + columns - 1 for the whole row.
C17_AdvanceStep ==
    \A w \in AtColumn :
        \A t \in {threads[w]} :
            /\ t.win.pushed = filter_size_x + (t.col - 1)
            /\ \A i \in 0..(filter_size_x - 1) :
                  \A strip \in {BruteForce(input, t.row, t.col - 1 - midpoint_x + i,
                                            0, midpoint_y)} :
                      /\ t.win.filter_min_vals[i + 1] = strip.min_val
                      /\ t.win.filter_max_vals[i + 1] = strip.max_val
                      /\ t.win.totals[i + 1] = strip.sum
                      /\ t.win.n_vals[i + 1] = strip.n

\* The last column of a row of three is processed: the strips of the window
\* differ and filter_size_x + 2 strips were scanned.
C17_Witness ==
    \E w \in AtColumn :
        /\ input.columns = 3
        /\ threads[w].col = 3
        /\ filter_size_x = 3
        /\ threads[w].win.pushed = 5
        /\ threads[w].win.totals[1] # threads[w].win.totals[2]
        /\ threads[w].win.n_vals[2] >= 1

\* C20: when the centre sample of a processed column is valid, the combined
\* count is at least 1 (no division by 0) and the combined minimum and
\* maximum are finite, with min <= centre <= max.
C20_CentreInWindow ==
    \A w \in AtColumn :
        \A t \in {threads[w]} :
            Valid(input, t.row, t.col - 1) =>
                \A agg \in {Combined(t.win, 0, filter_size_x, EmptyStrip)} :
                    /\ agg.n >= 1
                    /\ NegInf < agg.min_val /\ agg.max_val < PosInf
                    /\ agg.min_val <= GetValue(input, t.row, t.col - 1)
                    /\ GetValue(input, t.row, t.col - 1) <= agg.max_val

\* A valid centre which is the only valid sample of its window.
C20_Witness ==
    \E w \in AtColumn :
        /\ Valid(input, threads[w].row, threads[w].col - 1)
        /\ Holes(<<threads[w].row, threads[w].col - 1>>) # {}
        /\ Combined(threads[w].win, 0, filter_size_x, EmptyStrip).n = 1

----------------------------------------------------------------------------
(* What the workers read *)

\* C18: a worker of block [starting_row, ending_row) reads the input only
\* at rows starting_row - midpoint_y .. ending_row - 1 + midpoint_y and at
\* columns -midpoint_x .. columns - 1 + midpoint_x, and no step of the run
\* changes the input.
C18_ReadFootprint ==
    /\ [](\A w \in DOMAIN threads :
             \A xy \in threads[w].reads :
                 /\ threads[w].starting_row - midpoint_y <= xy[1]
                 /\ xy[1] <= threads[w].ending_row - 1 + midpoint_y
                 /\ 0 - midpoint_x <= xy[2]
                 /\ xy[2] <= input.columns - 1 + midpoint_x)
    /\ [][input' = input]_vars

\* A worker whose block does not start the raster has read the corners of
\* its footprint, in another worker's block and beside the grid.
C18_Witness ==
    \E w \in DOMAIN threads :
        /\ threads[w].starting_row >= 1
        /\ threads[w].ending_row < input.rows
        /\ <<threads[w].starting_row - midpoint_y, 0 - midpoint_x>> \in threads[w].reads
        /\ <<threads[w].row - 1 + midpoint_y, input.columns - 1 + midpoint_x>>
               \in threads[w].reads

----------------------------------------------------------------------------
(* Progress *)

\* The percentage of the k-th message received (k counted from 0): the
\* integer part of 100 k / (rows - 1), 0 when there is one row.
Percent(k) == IF input.rows = 1 THEN 0 ELSE (100 * k) \div (input.rows - 1)

\* C19: in verbose mode the progress values printed are strictly
\* increasing integers of 0..100 (none is printed twice in a row), they
\* are the percentages of the messages counted so far, whatever row
\* indices the messages carried, and for rows >= 2 the last one printed by
\* the collector loop is 100; without verbose nothing is printed.
C19_Progress ==
    /\ \A i, j \in 1..Len(printed) : i < j => printed[i] < printed[j]
    /\ \A i \in 1..Len(printed) : printed[i] \in 0..100
    /\ verbose => {printed[i] : i \in 1..Len(printed)} = {Percent(k) : k \in 0..(row - 1)}
    /\ (verbose /\ input.rows >= 2 /\ pc \in {"write", "done"}) =>
          printed[Len(printed)] = 100
    /\ ~verbose => printed = <<>>

\* The collector loop of a verbose run is over and some progress value was
\* not printed again: fewer values were printed than messages received.
C19_Witness ==
    /\ verbose
    /\ pc = "write"
    /\ Len(received) = input.rows
    /\ Len(printed) >= 100
    /\ Len(printed) < Len(received)

====
